---------------------------- MODULE Spec2Model ----------------------------
(***************************************************************************)
(* FastVLM PC inference script (scripts/pc_fastvlm_infer.py).              *)
(*                                                                         *)
(* Four state machines share this module:                                  *)
(*   Spec     - main(): vision encode, text embedding, projector, fusion,  *)
(*              prefill, the autoregressive decode loop and the final cut. *)
(*   SpecSample - top_p_sample, one stage of the sampler per step.         *)
(*   SpecBpe  - BpeTokenizerPy._bpe, one merge round per step.             *)
(*   SpecTok  - BpeTokenizerPy.tokenize_to_ids / _encode_segment / decode, *)
(*              one scan-loop iteration per step.                          *)
(* Text is a sequence of one-character strings; a BPE symbol is the        *)
(* sequence of the characters it is made of.  Logits are integers, the     *)
(* sampler's floating-point values are exact fractions, and exp is a       *)
(* fixed-point power of two that underflows to zero.                       *)
(***************************************************************************)
EXTENDS Integers, Sequences, FiniteSets, TLC

\* ------------------------------------------------------------------ bounds
MaxNew == 2
MaxPrompt == 5
MaxT == 3
MaxLogit == 1
UnderflowAt == 2

\* --------------------------------------------------------- program constants
image_token_id == 151646
eos_id == 151645
\* 1 / 1e-6, the floor of the sampling temperature (line 289).
MinTemperatureInv == 1000000

\* Ids the prompt may hold, and ids the sampler may return (0 .. vocab-1).
PromptIds == {image_token_id, 0}
VocabIds == {eos_id, 0, 1}

\* Feature widths of the vision encoder output, named after what they equal.
FeatDims == {"hidden", "mm_hidden", "other"}
LayerCounts == {1, 2}

VARIABLES
  pc,               \* position of main()
  max_new_tokens,   \* args.max_new_tokens
  input_ids,        \* tokenized prompt
  num_layers,       \* decoder layers, from the decoder signature
  vf,               \* vision encoder output: [ok, T, feat_dim]
  text_emb,         \* embedding of every prompt id
  vis_proj,         \* projected vision vectors
  prefill,          \* inputs of the first decoder call
  out,              \* last decoder output, <<logits, k0, v0, k1, v1, ...>>
  last,             \* logits of the last position
  seen,             \* id -> occurrence count
  generated,        \* sampled ids
  step,             \* loop variable of the decode loop
  feed,             \* inputs of the last one-position decoder call
  fed_from,         \* decoder output the last feed was built from
  dec_calls,        \* number of decoder calls made
  embed_calls,      \* number of single-id embedding lookups made
  cut,              \* ids handed to tokenizer.decode
  printed,          \* what main() printed: "none", "warning" or "text"
  args,             \* args.top_p, args.temperature, args.repetition_penalty
  passed_intact     \* the logits and the mapping main() passed to the last
                    \* top_p_sample call came back as they were passed

VARIABLES
  spc,                 \* position of top_p_sample
  logits_arg,          \* the caller's logits array
  seen_arg,            \* the caller's seen mapping
  top_p,
  temperature,
  repetition_penalty,
  work,                \* the local float64 logits
  probs,
  order,               \* idx, the ids by descending probability
  keep_idx,
  choice

VARIABLES
  bpe_ranks,        \* merges.txt, in file order: the pair at index r has rank r - 1
  token,            \* argument of _bpe
  word,             \* _bpe's working list of symbols
  bpc               \* position of _bpe

VARIABLES
  special_to_id,    \* added_tokens_decoder in file order: <<[content, id], ...>>
  vocab,            \* vocab.json: symbol -> id
  text,             \* argument of tokenize_to_ids
  scan_i,           \* i, the scan cursor (0-based)
  ids,              \* ids emitted so far
  tpc,              \* position of the tokenizer run
  round,            \* 1: tokenize(text); 2: tokenize(decode(ids1))
  ids1,             \* result of round 1
  text1,            \* decode(ids1)
  text2,            \* decode(tokenize(text1))
  chosen,           \* the marker the last scan iteration took, and from where
  unmapped,         \* ids emitted this round for symbols without a vocabulary id
  unmapped1         \* the same, of round 1

bpeVars == <<token, word, bpc>>
smpVars == <<spc, logits_arg, seen_arg, top_p, temperature, repetition_penalty, work,
             probs, order, keep_idx, choice>>
tokVars == <<special_to_id, vocab, text, scan_i, ids, tpc, round, ids1, text1, text2,
             chosen, unmapped, unmapped1>>

mainVars == <<pc, max_new_tokens, input_ids, num_layers, vf, text_emb, vis_proj,
              prefill, out, last, seen, generated, step, feed, fed_from,
              dec_calls, embed_calls, cut, printed, args, passed_intact>>

\* The parts of the state a specification does not exercise stay at rest.
MainIdle ==
  /\ pc = "idle"
  /\ max_new_tokens = 0
  /\ input_ids = <<>>
  /\ num_layers = 1
  /\ vf = [ok |-> TRUE, T |-> 0, feat_dim |-> "hidden"]
  /\ text_emb = <<>>
  /\ vis_proj = <<>>
  /\ prefill = <<>>
  /\ out = <<>>
  /\ last = <<>>
  /\ seen = <<>>
  /\ generated = <<>>
  /\ step = 0
  /\ feed = <<>>
  /\ fed_from = <<>>
  /\ dec_calls = 0
  /\ embed_calls = 0
  /\ cut = <<>>
  /\ printed = "none"
  /\ args = <<>>
  /\ passed_intact = TRUE

SmpIdle ==
  /\ spc = "idle"
  /\ logits_arg = <<>>
  /\ seen_arg = <<>>
  /\ top_p = <<>>
  /\ temperature = <<>>
  /\ repetition_penalty = <<>>
  /\ work = <<>>
  /\ probs = <<>>
  /\ order = <<>>
  /\ keep_idx = <<>>
  /\ choice = -1

BpeIdle ==
  /\ token = <<>>
  /\ word = <<>>
  /\ bpc = "idle"

TokIdle ==
  /\ special_to_id = <<>>
  /\ vocab = <<>>
  /\ text = <<>>
  /\ scan_i = 0
  /\ ids = <<>>
  /\ tpc = "idle"
  /\ round = 0
  /\ ids1 = <<>>
  /\ text1 = <<>>
  /\ text2 = <<>>
  /\ chosen = <<>>
  /\ unmapped = <<>>
  /\ unmapped1 = <<>>

\* ------------------------------------------------------------ sequence helpers
RECURSIVE SeqsUpTo(_, _)
SeqsUpTo(S, n) ==
  IF n = 0 THEN {<<>>}
  ELSE LET shorter == SeqsUpTo(S, n - 1)
       IN shorter \cup {Append(s, x) : s \in {t \in shorter : Len(t) = n - 1}, x \in S}

Ones(n) == [i \in 1..n |-> 1]

\* Smallest index holding x, 0 when there is none (np.where(...)[0][0], list.index).
FirstIndex(s, x) ==
  IF \E i \in 1..Len(s) : s[i] = x
  THEN CHOOSE i \in 1..Len(s) : s[i] = x /\ \A j \in 1..(i - 1) : s[j] # x
  ELSE 0

\* ------------------------------------------------ external tensor compute engine
\* embed_tokens: one vector per id.
Embed(id) == <<"emb", id>>

\* One cache position of layer l: what the decoder stored for one fed position.
Cell(kind, l, pos, emb) == [kind |-> kind, layer |-> l, pos |-> pos, emb |-> emb]

\* The decoder: per-position logits, and every past tensor grown by the fed
\* positions.  Output order: logits, present.0.key, present.0.value, ...
DecoderRun(f) ==
  LET n == Len(f.inputs_embeds)
      layers == Len(f.past) \div 2
      grown(l, kind, past) ==
        past \o [j \in 1..n |-> Cell(kind, l, f.position_ids[j], f.inputs_embeds[j])]
      logits == [j \in 1..n |-> [mask |-> Len(f.attention_mask), pos |-> f.position_ids[j]]]
  IN <<logits>> \o
     [i \in 1..(2 * layers) |->
        IF i % 2 = 1 THEN grown((i - 1) \div 2, "key", f.past[i])
                     ELSE grown((i - 2) \div 2, "value", f.past[i])]

\* past_key_values of a feed, flattened as 0.key, 0.value, 1.key, 1.value, ...
PastKey(f, l) == f.past[2 * l + 1]
PastValue(f, l) == f.past[2 * l + 2]

\* out[i] with the source's 0-based index.
OutAt(o, i) == o[i + 1]

\* --------------------------------------------------------------- top_p_sample
\* A float64 value as an exact fraction with a positive denominator.
Frac(n, d) == [num |-> n, den |-> d]
FracLess(x, y) == x.num * y.den < y.num * x.den
FracMul(x, y) == Frac(x.num * y.num, x.den * y.den)
FracDiv(x, y) == Frac(x.num * y.den, x.den * y.num)
FracSub(x, y) == Frac(x.num * y.den - y.num * x.den, x.den * y.den)

RECURSIVE SumOver(_, _)
SumOver(f, S) ==
  IF S = {} THEN 0
  ELSE LET x == CHOOSE y \in S : TRUE IN f[x] + SumOver(f, S \ {x})

RECURSIVE Pow2(_)
Pow2(n) == IF n = 0 THEN 1 ELSE 2 * Pow2(n - 1)

\* seen.get(id, 0)
Count(counts, id) == IF id \in DOMAIN counts THEN counts[id] ELSE 0

\* Mutant: the count of a sampled id is set to one.
BumpToOne(counts, id) ==
  [k \in DOMAIN counts \cup {id} |-> IF k = id THEN 1 ELSE counts[k]]

\* seen[nid] = seen.get(nid, 0) + 1
Bump(counts, id) ==
  [k \in DOMAIN counts \cup {id} |-> IF k = id THEN Count(counts, id) + 1 ELSE counts[k]]

\* lines 282-287: the repetition penalty, applied to the local float64 copy.
Penalize(lg, counts, rep) ==
  [id \in DOMAIN lg |->
     IF Count(counts, id) > 0
     THEN IF lg[id] > 0 THEN FracDiv(Frac(lg[id], 1), rep)
                        ELSE FracMul(Frac(lg[id], 1), rep)
     ELSE Frac(lg[id], 1)]

\* t = max(temperature, 1e-6)
ClampTemperature(t) ==
  IF FracLess(t, Frac(1, MinTemperatureInv)) THEN Frac(1, MinTemperatureInv) ELSE t

\* logits = logits / t
Scale(w, t) == [id \in DOMAIN w |-> FracDiv(w[id], ClampTemperature(t))]

\* np.max
MaxOf(w) ==
  CHOOSE x \in {w[id] : id \in DOMAIN w} : \A id \in DOMAIN w : ~FracLess(x, w[id])

\* np.exp of a value <= 0, in units of 2^-UnderflowAt: a power of two of the
\* integer part, zero once the result is below the smallest unit.
Exp(x) ==
  LET g == (0 - x.num) \div x.den
  IN IF g > UnderflowAt THEN 0 ELSE Pow2(UnderflowAt - g)

\* lines 292-294: probs = exp(logits - m) / sum
Softmax(w) ==
  LET m == MaxOf(w)
      e == [id \in DOMAIN w |-> Exp(FracSub(w[id], m))]
      total == SumOver(e, DOMAIN w)
  IN [id \in DOMAIN w |-> Frac(e[id], total)]

\* np.argsort(-probs): every order of the ids by descending probability; the
\* place of equal probabilities is the sort's choice.
ArgSortDesc(pr) ==
  LET n == Cardinality(DOMAIN pr)
  IN {o \in [1..n -> DOMAIN pr] :
        /\ \A j, k \in 1..n : j # k => o[j] # o[k]
        /\ \A j \in 1..(n - 1) : ~FracLess(pr[o[j]], pr[o[j + 1]])}

\* np.cumsum(probs[idx])
CumSum(o, pr) ==
  [k \in 1..Len(o) |->
     Frac(SumOver([j \in 1..k |-> pr[o[j]].num], 1..k), pr[o[1]].den)]

\* Mutant: np.searchsorted(..., side='right').
SearchSortedRight(cs, v) == Cardinality({k \in 1..Len(cs) : ~FracLess(v, cs[k])})

\* np.searchsorted(cumsum, top_p): the number of entries below top_p.
SearchSorted(cs, v) == Cardinality({k \in 1..Len(cs) : FracLess(cs[k], v)})

\* lines 297-299: keep_n and the slice idx[:keep_n].
KeepIdx(o, pr, tp) ==
  LET keep_n == SearchSorted(CumSum(o, pr), tp) + 1
  IN SubSeq(o, 1, IF keep_n > Len(o) THEN Len(o) ELSE keep_n)

\* lines 300-301: the kept probabilities, renormalised.
KeepProbs(kept, pr) ==
  LET total == SumOver([k \in 1..Len(kept) |-> pr[kept[k]].num], 1..Len(kept))
  IN [k \in 1..Len(kept) |-> Frac(pr[kept[k]].num, total)]

\* np.random.choice(keep_idx, p=keep_probs): any id of non-zero probability.
RandomChoice(kept, kp) == {kept[k] : k \in {j \in 1..Len(kept) : kp[j].num > 0}}

\* top_p_sample (277-303): the ids a call can return, and the caller's logits
\* array and seen mapping as the call leaves them.
top_p_sample(lg, tp, t, rep, counts) ==
  LET pr == Softmax(Scale(Penalize(lg, counts, rep), t))
  IN [choices |-> UNION {RandomChoice(KeepIdx(o, pr, tp), KeepProbs(KeepIdx(o, pr, tp), pr)) :
                           o \in ArgSortDesc(pr)},
      logits |-> lg,
      seen |-> counts]

\* Values of the sampling arguments, and the logits a decoder can return.
TopPs == {Frac(1, 20), Frac(1, 2), Frac(19, 20), Frac(1, 1)}
Temperatures == {Frac(7, 10), Frac(1, 1), Frac(0, 1)}
Penalties == {Frac(1, 1), Frac(11, 10), Frac(2, 1)}
LogitVectors == [VocabIds -> (0 - MaxLogit)..MaxLogit]

\* The argparse defaults (lines 311-313).
MainArgs ==
  {[top_p |-> Frac(19, 20), temperature |-> Frac(7, 10), repetition_penalty |-> Frac(11, 10)]}

\* The mapping main() holds after sampling the ids of gen.
RECURSIVE SeenAfter(_)
SeenAfter(gen) ==
  IF gen = <<>> THEN <<>>
  ELSE Bump(SeenAfter(SubSeq(gen, 1, Len(gen) - 1)), gen[Len(gen)])

SeenTables == {SeenAfter(gen) : gen \in SeqsUpTo(VocabIds, MaxNew)}

\* What a call top_p_sample(last, ..., seen=seen) can give main(), over the
\* logits the decoder can have returned: the sampled id, the seen mapping after
\* the call, and whether the logits and the mapping came back as passed.
SampleOutcomes(a, counts) ==
  UNION {LET res == top_p_sample(lg, a.top_p, a.temperature, a.repetition_penalty, counts)
         IN {[nid |-> n, seen |-> res.seen,
              intact |-> (res.logits = lg /\ res.seen = counts)] : n \in res.choices}
         : lg \in LogitVectors}

\* SampleOutcomes on every argument the decode loop can pass, as an explicit
\* table (f @@ <<>> is f, enumerated).
SampleCalls ==
  [k \in MainArgs \X SeenTables |-> SampleOutcomes(k[1], k[2])] @@ <<>>

\* ---------------------------------------------------------------------- main()
NoFeed == [inputs_embeds |-> <<>>, attention_mask |-> <<>>, position_ids |-> <<>>,
           past |-> <<>>]

Init ==
  /\ pc = "vision"
  /\ max_new_tokens \in -1..MaxNew
  /\ input_ids \in {s \in SeqsUpTo(PromptIds, MaxPrompt) : Len(s) >= 1}
  /\ num_layers \in LayerCounts
  /\ vf = [ok |-> TRUE, T |-> 0, feat_dim |-> "hidden"]
  /\ text_emb = <<>>
  /\ vis_proj = <<>>
  /\ prefill = NoFeed
  /\ out = <<>>
  /\ last = [mask |-> 0, pos |-> 0]
  /\ seen = <<>>
  /\ generated = <<>>
  /\ step = 0
  /\ feed = NoFeed
  /\ fed_from = <<>>
  /\ dec_calls = 0
  /\ embed_calls = 0
  /\ cut = <<>>
  /\ printed = "none"
  /\ args \in MainArgs
  /\ passed_intact = TRUE
  /\ bpe_ranks = <<>>
  /\ BpeIdle
  /\ TokIdle
  /\ SmpIdle

\* lines 339-347: the vision encoder runs; an output that is not [1, T, F] raises.
VisionEncode ==
  /\ pc = "vision"
  /\ \E ok \in BOOLEAN, t \in 1..MaxT, fd \in FeatDims :
       /\ vf' = [ok |-> ok, T |-> t, feat_dim |-> fd]
       /\ pc' = IF ok THEN "embed" ELSE "raised"
  /\ UNCHANGED <<max_new_tokens, input_ids, num_layers, text_emb, vis_proj, prefill,
                 out, last, seen, generated, step, feed, fed_from, dec_calls,
                 embed_calls, cut, printed>>
  /\ UNCHANGED <<args, passed_intact, bpe_ranks, bpeVars, tokVars, smpVars>>

\* lines 350-351
EmbedText ==
  /\ pc = "embed"
  /\ text_emb' = [i \in 1..Len(input_ids) |-> Embed(input_ids[i])]
  /\ pc' = "project"
  /\ UNCHANGED <<max_new_tokens, input_ids, num_layers, vf, vis_proj, prefill,
                 out, last, seen, generated, step, feed, fed_from, dec_calls,
                 embed_calls, cut, printed>>
  /\ UNCHANGED <<args, passed_intact, bpe_ranks, bpeVars, tokVars, smpVars>>

\* lines 354-357 and project_vision (255-274): a feature width that is neither the
\* decoder width nor the projector's input width raises ValueError.
ProjectVision ==
  /\ pc = "project"
  /\ IF vf.feat_dim \in {"hidden", "mm_hidden"}
     THEN /\ vis_proj' = [j \in 1..vf.T |-> <<"vis", j - 1>>]
          /\ pc' = "fuse"
     ELSE /\ vis_proj' = vis_proj
          /\ pc' = "raised"
  /\ UNCHANGED <<max_new_tokens, input_ids, num_layers, vf, text_emb, prefill,
                 out, last, seen, generated, step, feed, fed_from, dec_calls,
                 embed_calls, cut, printed>>
  /\ UNCHANGED <<args, passed_intact, bpe_ranks, bpeVars, tokVars, smpVars>>

\* Mutant: a missing placeholder falls back to the first position.
ImagePosDefault(prompt_ids) ==
  IF FirstIndex(prompt_ids, image_token_id) = 0 THEN 1
  ELSE FirstIndex(prompt_ids, image_token_id)

\* image_pos (lines 359-360), 1-based; 0 stands for None.
ImagePos(prompt_ids) == FirstIndex(prompt_ids, image_token_id)

\* lines 364-373: the write loop over i in range(L), w the write cursor.
RECURSIVE FuseFrom(_, _, _, _)
FuseFrom(i, image_pos, temb, vis) ==
  IF i > Len(temb) THEN <<>>
  ELSE (IF i = image_pos THEN vis ELSE <<temb[i]>>) \o FuseFrom(i + 1, image_pos, temb, vis)

\* Mutant: the vision vectors are inserted and the placeholder's own vector is kept.
FuseKeepPlaceholder(image_pos, temb, vis) ==
  SubSeq(temb, 1, image_pos) \o vis \o SubSeq(temb, image_pos + 1, Len(temb))

FuseEmbeds(image_pos, temb, vis) == FuseFrom(1, image_pos, temb, vis)

\* lines 359-378: without a placeholder main() prints the warning and returns;
\* otherwise it builds inputs_embeds, attention_mask and position_ids.
Fuse ==
  /\ pc = "fuse"
  /\ LET image_pos == ImagePos(input_ids)
         total_len == Len(text_emb) - 1 + vf.T
     IN IF image_pos = 0
        THEN /\ printed' = "warning"
             /\ pc' = "returned"
             /\ prefill' = prefill
        ELSE /\ prefill' = [inputs_embeds |-> FuseEmbeds(image_pos, text_emb, vis_proj),
                            attention_mask |-> Ones(total_len),
                            position_ids |-> [i \in 1..total_len |-> i - 1],
                            past |-> [i \in 1..(2 * num_layers) |-> <<>>]]
             /\ printed' = printed
             /\ pc' = "prefill"
  /\ UNCHANGED <<max_new_tokens, input_ids, num_layers, vf, text_emb, vis_proj,
                 out, last, seen, generated, step, feed, fed_from, dec_calls,
                 embed_calls, cut>>
  /\ UNCHANGED <<args, passed_intact, bpe_ranks, bpeVars, tokVars, smpVars>>

\* lines 381-402: the first decoder call, on the whole fused sequence and empty caches.
Prefill ==
  /\ pc = "prefill"
  /\ out' = DecoderRun(prefill)
  /\ last' = LET logits == OutAt(out', 0) IN logits[Len(logits)]
  /\ seen' = <<>>
  /\ generated' = <<>>
  /\ step' = 0
  /\ dec_calls' = dec_calls + 1
  /\ pc' = "STEP"
  /\ UNCHANGED <<max_new_tokens, input_ids, num_layers, vf, text_emb, vis_proj,
                 prefill, feed, fed_from, embed_calls, cut, printed>>
  /\ UNCHANGED <<args, passed_intact, bpe_ranks, bpeVars, tokVars, smpVars>>

\* The loop's break test (line 415).
IsStop(nid) == nid = eos_id

\* Mutant: the loop bound is off by one.
InRangeOffByOne(s, n) == s <= n

\* range(args.max_new_tokens) still has a value for this step.
InRange(s, n) == s < n

\* lines 405-416: one iteration up to the break test.  The values of the logits
\* are whatever the decoder computed for the last position.
Sample ==
  /\ pc = "STEP"
  /\ InRange(step, max_new_tokens)
  /\ \E res \in SampleCalls[<<args, seen>>] :
       /\ generated' = Append(generated, res.nid)
       /\ seen' = Bump(res.seen, res.nid)
       /\ passed_intact' = res.intact
       /\ pc' = IF IsStop(res.nid) THEN "DONE" ELSE "decode"
  /\ UNCHANGED <<max_new_tokens, input_ids, num_layers, vf, text_emb, vis_proj,
                 prefill, out, last, step, feed, fed_from, dec_calls, embed_calls,
                 cut, printed>>
  /\ UNCHANGED <<args, bpe_ranks, bpeVars, tokVars, smpVars>>

\* line 405: range(max_new_tokens) is exhausted.
LoopExit ==
  /\ pc = "STEP"
  /\ ~InRange(step, max_new_tokens)
  /\ pc' = "DONE"
  /\ UNCHANGED <<max_new_tokens, input_ids, num_layers, vf, text_emb, vis_proj,
                 prefill, out, last, seen, generated, step, feed, fed_from,
                 dec_calls, embed_calls, cut, printed>>
  /\ UNCHANGED <<args, passed_intact, bpe_ranks, bpeVars, tokVars, smpVars>>

\* Mutant: every step feeds the empty cache again.
StepFeedReset(o, nid, layers) ==
  [inputs_embeds |-> <<Embed(nid)>>,
   attention_mask |-> Ones(Len(OutAt(o, 1)) + 1),
   position_ids |-> <<Len(OutAt(o, 1))>>,
   past |-> [k \in 1..(2 * layers) |-> <<>>]]

\* Mutant: key and value of every layer are swapped.
StepFeedSwapped(o, nid, layers) ==
  [inputs_embeds |-> <<Embed(nid)>>,
   attention_mask |-> Ones(Len(OutAt(o, 1)) + 1),
   position_ids |-> <<Len(OutAt(o, 1))>>,
   past |-> [k \in 1..(2 * layers) |-> IF k % 2 = 1 THEN OutAt(o, k + 1) ELSE OutAt(o, k - 1)]]

\* lines 422-432: the one-position feed built from the previous decoder output.
StepFeed(o, nid, layers) ==
  LET k0 == OutAt(o, 1)
      past_len == Len(k0)
  IN [inputs_embeds |-> <<Embed(nid)>>,
      attention_mask |-> Ones(past_len + 1),
      position_ids |-> <<past_len>>,
      past |-> [i \in 1..(2 * layers) |-> OutAt(o, i)]]

\* lines 418-434: embed the new id, call the decoder on one position, next step.
DecodeStep ==
  /\ pc = "decode"
  /\ feed' = StepFeed(out, generated[Len(generated)], num_layers)
  /\ fed_from' = out
  /\ out' = DecoderRun(feed')
  /\ last' = LET logits == OutAt(out', 0) IN logits[Len(logits)]
  /\ embed_calls' = embed_calls + 1
  /\ dec_calls' = dec_calls + 1
  /\ step' = step + 1
  /\ pc' = "STEP"
  /\ UNCHANGED <<max_new_tokens, input_ids, num_layers, vf, text_emb, vis_proj,
                 prefill, seen, generated, cut, printed>>
  /\ UNCHANGED <<args, passed_intact, bpe_ranks, bpeVars, tokVars, smpVars>>

\* Mutant: the cut keeps the end-of-sequence id.
CutAfterEos(gen) ==
  IF FirstIndex(gen, eos_id) > 0 THEN SubSeq(gen, 1, FirstIndex(gen, eos_id)) ELSE gen

\* lines 438-441
CutAtEos(gen) ==
  IF FirstIndex(gen, eos_id) > 0 THEN SubSeq(gen, 1, FirstIndex(gen, eos_id) - 1) ELSE gen

\* lines 436-443: cut at the end-of-sequence id, decode, print.
Finish ==
  /\ pc = "DONE"
  /\ cut' = CutAtEos(generated)
  /\ printed' = "text"
  /\ pc' = "end"
  /\ UNCHANGED <<max_new_tokens, input_ids, num_layers, vf, text_emb, vis_proj,
                 prefill, out, last, seen, generated, step, feed, fed_from,
                 dec_calls, embed_calls>>
  /\ UNCHANGED <<args, passed_intact, bpe_ranks, bpeVars, tokVars, smpVars>>

Next ==
  \/ VisionEncode
  \/ EmbedText
  \/ ProjectVision
  \/ Fuse
  \/ Prefill
  \/ Sample
  \/ LoopExit
  \/ DecodeStep
  \/ Finish

vars == <<mainVars, bpe_ranks, bpeVars, tokVars, smpVars>>

Spec == Init /\ [][Next]_vars

\* main() is sequential code: whatever step is enabled is eventually taken.
FairSpec == Spec /\ WF_vars(Next)


\* ------------------------------------------------------------ claims on main()
Range(s) == {s[k] : k \in 1..Len(s)}
NoPlaceholder == image_token_id \notin Range(input_ids)
LoopStopped == pc \in {"DONE", "end"}
AfterPrefill == pc \in {"STEP", "decode", "DONE", "end"}

\* C1: with max_new_tokens >= 0 the decode loop never samples more than
\* max_new_tokens ids and always reaches DONE; when the first sampled id is the
\* end-of-sequence id the loop is in DONE at once, with that single id generated
\* and no decoder call after prefill.
C1_LoopHalts ==
  /\ [](max_new_tokens >= 0 => Len(generated) <= max_new_tokens)
  /\ []((Len(generated) >= 1 /\ generated[1] = eos_id)
          => (LoopStopped /\ Len(generated) = 1 /\ dec_calls = 1))
  /\ (pc = "STEP") ~> (pc = "DONE")

C1_Witness ==
  pc = "DONE" /\ generated = <<eos_id>> /\ max_new_tokens >= 2

\* C2: after prefill every cache tensor holds the prefill length, and after the
\* k-th one-position decoder call the prefill length + k: one more per step,
\* never fewer.
C2_CacheLength ==
  AfterPrefill =>
    /\ Len(out) = 1 + 2 * num_layers
    /\ \A idx \in 1..(2 * num_layers) :
         Len(OutAt(out, idx)) = Len(prefill.inputs_embeds) + (dec_calls - 1)
    /\ dec_calls - 1 = step

C2_Witness ==
  dec_calls = 3 /\ Len(OutAt(out, 1)) = Len(prefill.inputs_embeds) + 2

\* C3: every decoder call after prefill is fed one embedding vector, that of the id
\* just sampled, a mask of past_len + 1 ones, the single position past_len, and
\* for every layer the key and value tensors of the preceding decoder output,
\* where past_len is the length of the returned cache tensor.
C3_StepFeed ==
  dec_calls >= 2 =>
    LET past_len == Len(OutAt(fed_from, 1))
    IN /\ feed.inputs_embeds = <<Embed(generated[dec_calls - 1])>>
       /\ feed.attention_mask = Ones(past_len + 1)
       /\ feed.position_ids = <<past_len>>
       /\ past_len = Len(prefill.inputs_embeds) + (dec_calls - 2)
       /\ Len(feed.past) = 2 * num_layers
       /\ \A l \in 0..(num_layers - 1) :
            /\ PastKey(feed, l) = OutAt(fed_from, 1 + 2 * l)
            /\ PastValue(feed, l) = OutAt(fed_from, 2 + 2 * l)
            /\ Len(PastKey(feed, l)) = past_len
            /\ Len(PastValue(feed, l)) = past_len
            /\ \A j \in 1..past_len :
                 /\ PastKey(feed, l)[j].kind = "key"
                 /\ PastKey(feed, l)[j].layer = l
                 /\ PastKey(feed, l)[j].pos = j - 1
                 /\ PastValue(feed, l)[j].kind = "value"
                 /\ PastValue(feed, l)[j].layer = l
                 /\ PastValue(feed, l)[j].pos = j - 1

C3_Witness ==
  dec_calls = 3 /\ num_layers = 2 /\ pc = "STEP"

\* C4: the ids handed to decode are the generated ids before the first
\* end-of-sequence id, or all of them when there is none; they never hold the
\* end-of-sequence id.
C4_CutAtEos ==
  pc = "end" =>
    /\ Len(cut) <= Len(generated)
    /\ \A k \in 1..Len(cut) : cut[k] = generated[k] /\ cut[k] # eos_id
    /\ IF eos_id \in Range(generated)
       THEN generated[Len(cut) + 1] = eos_id
       ELSE Len(cut) = Len(generated)

C4_Witness ==
  pc = "end" /\ eos_id \in Range(generated) /\ Len(cut) = 1

\* C5 as stated: without a placeholder id the run never raises, ends by
\* reporting the condition, and neither calls the decoder, samples nor prints text.
C5_Original ==
  NoPlaceholder =>
    /\ pc # "raised"
    /\ dec_calls = 0 /\ generated = <<>> /\ printed # "text"
    /\ (pc \notin {"vision", "embed", "project", "fuse"}
          => (pc = "returned" /\ printed = "warning"))

\* C5 amended: without a placeholder id the decoder is never called, nothing is
\* sampled and no text is printed; the run ends by reporting the condition
\* whenever the vision output passed the shape checks made before the placeholder
\* test, and raises only when one of those checks failed.
C5_MissingPlaceholder ==
  NoPlaceholder =>
    /\ dec_calls = 0 /\ embed_calls = 0 /\ generated = <<>> /\ printed # "text"
    /\ pc \in {"vision", "embed", "project", "fuse", "returned", "raised"}
    /\ (pc = "raised" => (~vf.ok \/ vf.feat_dim = "other"))
    /\ (pc = "returned" => (printed = "warning" /\ vf.ok /\ vf.feat_dim # "other"))

C5_Witness ==
  NoPlaceholder /\ pc = "returned" /\ printed = "warning" /\ Len(input_ids) = 2

\* C6: the sequence fed to prefill has length L - 1 + T; it holds the text vectors
\* before the placeholder unchanged, the T vision vectors in order in its place,
\* and the text vectors after it shifted by T - 1; mask and position ids cover
\* positions 0 .. L + T - 2.
C6_Fusion ==
  pc \in {"prefill", "STEP", "decode", "DONE", "end"} =>
    LET L == Len(text_emb)
        T == Len(vis_proj)
        p == ImagePos(input_ids)
        fused == prefill.inputs_embeds
    IN /\ L = Len(input_ids) /\ T = vf.T /\ p >= 1
       /\ Len(fused) = L - 1 + T
       /\ \A k \in 1..(p - 1) : fused[k] = Embed(input_ids[k])
       /\ \A j \in 0..(T - 1) : fused[p + j] = <<"vis", j>>
       /\ \A k \in (p + 1)..L : fused[k + T - 1] = Embed(input_ids[k])
       /\ prefill.attention_mask = Ones(L - 1 + T)
       /\ Len(prefill.position_ids) = L - 1 + T
       /\ \A k \in 1..(L - 1 + T) : prefill.position_ids[k] = k - 1
       /\ \A k \in 1..Len(prefill.past) : prefill.past[k] = <<>>

\* L = 5 with the placeholder at 0-based index 2 and T = 3: a fused length of 7.
C6_Witness ==
  /\ pc = "prefill"
  /\ Len(input_ids) = 5 /\ ImagePos(input_ids) = 3 /\ vf.T = 3
  /\ Len(prefill.inputs_embeds) = 7


\* ------------------------------------------------------- BpeTokenizerPy._bpe
\* A symbol is the sequence of its characters; a pair is <<first, second>>.
MaxPiece == 3
MaxMerges == 2

\* rank returned for a pair that is not in the table (line 137)
NoRank == 1000000000

BpeChars == {"l", "o", "w"}
MergeCands ==
  { <<<<"l">>, <<"o">>>>, <<<<"l", "o">>, <<"w">>>>, <<<<"o">>, <<"w">>>>,
    <<<<"l">>, <<"l">>>>, <<<<"l">>, <<"o", "w">>>> }

\* self.bpe_ranks: a later line of merges.txt overwrites the rank of an earlier one.
InRanks(ranks, p) == \E r \in 1..Len(ranks) : ranks[r] = p
RankOf(ranks, p) ==
  IF InRanks(ranks, p)
  THEN (CHOOSE r \in 1..Len(ranks) :
          ranks[r] = p /\ \A q \in (r + 1)..Len(ranks) : ranks[q] # p) - 1
  ELSE NoRank

\* _get_pairs (120-127)
GetPairs(w) == {<<w[k], w[k + 1]>> : k \in 1..(Len(w) - 1)}

\* Mutant: the pair of highest rank is merged first.
MaxPair(ranks, pairs) ==
  CHOOSE p \in pairs :
    \A q \in pairs :
      (IF InRanks(ranks, p) THEN RankOf(ranks, p) ELSE -1)
        >= (IF InRanks(ranks, q) THEN RankOf(ranks, q) ELSE -1)

\* line 137: min(pairs, key=rank).  Two pairs tie only when neither is in the
\* table, and then the loop stops whichever of them min returns.
MinPair(ranks, pairs) ==
  CHOOSE p \in pairs : \A q \in pairs : RankOf(ranks, p) <= RankOf(ranks, q)

\* lines 143-161: the scan from index k (1-based) that builds new_word.
RECURSIVE MergeFrom(_, _, _, _)
MergeFrom(w, k, first, second) ==
  IF k > Len(w) THEN <<>>
  ELSE IF ~\E j \in k..Len(w) : w[j] = first
       THEN SubSeq(w, k, Len(w))
       ELSE LET j == CHOOSE j \in k..Len(w) :
                       w[j] = first /\ \A h \in k..(j - 1) : w[h] # first
            IN SubSeq(w, k, j - 1) \o
               (IF j < Len(w) /\ w[j + 1] = second
                THEN <<first \o second>> \o MergeFrom(w, j + 2, first, second)
                ELSE <<w[j]>> \o MergeFrom(w, j + 1, first, second))

\* lines 140-162: one round, every occurrence of bigram merged.
MergeRound(w, bigram) == MergeFrom(w, 1, bigram[1], bigram[2])

\* list(token)
Chars(tok) == [k \in 1..Len(tok) |-> <<tok[k]>>]

\* lines 136-166: the while loop, run to its end.
RECURSIVE BpeLoop(_, _)
BpeLoop(ranks, w) ==
  LET bigram == MinPair(ranks, GetPairs(w))
  IN IF ~InRanks(ranks, bigram) THEN w
     ELSE LET new_word == MergeRound(w, bigram)
          IN IF Len(new_word) = 1 THEN new_word ELSE BpeLoop(ranks, new_word)

\* _bpe (129-166)
Bpe(ranks, tok) ==
  IF tok = <<>> THEN <<>>
  ELSE IF GetPairs(Chars(tok)) = {} THEN <<tok>>
  ELSE BpeLoop(ranks, Chars(tok))

InitBpe ==
  /\ bpe_ranks \in SeqsUpTo(MergeCands, MaxMerges)
  /\ token \in SeqsUpTo(BpeChars, MaxPiece)
  /\ word = <<>>
  /\ bpc = "start"
  /\ MainIdle
  /\ SmpIdle
  /\ TokIdle

\* lines 130-135
BpeStart ==
  /\ bpc = "start"
  /\ IF token = <<>>
     THEN word' = <<>> /\ bpc' = "done"
     ELSE IF GetPairs(Chars(token)) = {}
          THEN word' = <<token>> /\ bpc' = "done"
          ELSE word' = Chars(token) /\ bpc' = "loop"
  /\ UNCHANGED <<bpe_ranks, token, mainVars, tokVars, smpVars>>

\* lines 137-165: one pass of the while loop
BpeRound ==
  /\ bpc = "loop"
  /\ LET bigram == MinPair(bpe_ranks, GetPairs(word))
     IN IF ~InRanks(bpe_ranks, bigram)
        THEN word' = word /\ bpc' = "done"
        ELSE /\ word' = MergeRound(word, bigram)
             /\ bpc' = IF Len(word') = 1 THEN "done" ELSE "loop"
  /\ UNCHANGED <<bpe_ranks, token, mainVars, tokVars, smpVars>>

NextBpe ==
  \/ BpeStart
  \/ BpeRound

SpecBpe == InitBpe /\ [][NextBpe]_vars

\* The reference procedure of C8: left-to-right replacement of non-overlapping
\* occurrences of one pair, and rounds until one symbol is left or no adjacent
\* pair is in the table.
RECURSIVE RefReplace(_, _)
RefReplace(w, p) ==
  IF Len(w) < 2 THEN w
  ELSE IF <<w[1], w[2]>> = p
       THEN <<w[1] \o w[2]>> \o RefReplace(SubSeq(w, 3, Len(w)), p)
       ELSE <<w[1]>> \o RefReplace(Tail(w), p)

RECURSIVE RefBpe(_, _)
RefBpe(ranks, w) ==
  LET eligible == {p \in GetPairs(w) : InRanks(ranks, p)}
  IN IF Len(w) <= 1 \/ eligible = {} THEN w
     ELSE LET best == CHOOSE p \in eligible :
                        \A q \in eligible : RankOf(ranks, p) <= RankOf(ranks, q)
          IN RefBpe(ranks, RefReplace(w, best))

\* C8: _bpe returns what the reference procedure returns on the piece's single
\* characters, for every piece and rank table; with (l,o) -> 0 and (lo,w) -> 1 the
\* piece "low" ends as the single symbol "low".
C8_BpeMerge ==
  bpc = "done" =>
    /\ word = RefBpe(bpe_ranks, Chars(token))
    /\ Bpe(bpe_ranks, token) = word
    /\ (token = <<"l", "o", "w">>
          /\ bpe_ranks = << <<<<"l">>, <<"o">>>>, <<<<"l", "o">>, <<"w">>>> >>
        => word = << <<"l", "o", "w">> >>)

C8_Witness ==
  /\ bpc = "done"
  /\ token = <<"l", "o", "w">>
  /\ bpe_ranks = << <<<<"l">>, <<"o">>>>, <<<<"l", "o">>, <<"w">>>> >>
  /\ word = << <<"l", "o", "w">> >>


\* ------------------------------- BpeTokenizerPy: tokenize_to_ids and decode
\* The texts of this model are ASCII without digits and apostrophes: one byte
\* per character, and of the pattern's alternatives (line 52) only the letter
\* run, the punctuation run and the two whitespace runs can match.
MaxText == 4
MaxSpecials == 2

TokChars == {"a", "<", " "}
Letters == {"a", "u", "n", "k"}

\* chr(256 + 32), the character byte 32 is mapped to
GSPACE == "U+0120"

\* _build_bytes_to_unicode (109-118), on printable ASCII and the space
ByteEncoder(c) == IF c = " " THEN GSPACE ELSE c

\* byte_decoder.get(ch): <<>> stands for None
ByteDecoder(ch) ==
  IF ch = GSPACE THEN <<" ">> ELSE IF ch = " " THEN <<>> ELSE <<ch>>

CharClass(c) ==
  IF c = " " THEN "space" ELSE IF c \in Letters THEN "letter" ELSE "other"

\* Length of the run of characters of class cls that starts at index k.
RECURSIVE RunLen(_, _, _)
RunLen(s, k, cls) ==
  IF k > Len(s) \/ CharClass(s[k]) # cls THEN 0 ELSE 1 + RunLen(s, k + 1, cls)

\* Length of the match of self.pattern at index k (line 52):
\*   " ?\p{L}+" and " ?[^\s\p{L}\p{N}]+"  a run, with one leading space;
\*   "\s+(?!\S)"  a whitespace run up to the end, or all but its last space.
PieceLen(s, k) ==
  IF CharClass(s[k]) # "space" THEN RunLen(s, k, CharClass(s[k]))
  ELSE LET sp == RunLen(s, k, "space")
           after == k + sp
       IN IF after > Len(s) THEN sp
          ELSE IF sp = 1 THEN 1 + RunLen(s, after, CharClass(s[after]))
          ELSE sp - 1

\* self.pattern.finditer(segment)
RECURSIVE PiecesFrom(_, _)
PiecesFrom(s, k) ==
  IF k > Len(s) THEN <<>>
  ELSE <<SubSeq(s, k, k + PieceLen(s, k) - 1)>> \o PiecesFrom(s, k + PieceLen(s, k))

\* line 205
EncodePiece(piece) == [k \in 1..Len(piece) |-> ByteEncoder(piece[k])]

RECURSIVE SymbolsOf(_, _)
SymbolsOf(pieces, ranks) ==
  IF pieces = <<>> THEN <<>>
  ELSE Bpe(ranks, EncodePiece(Head(pieces))) \o SymbolsOf(Tail(pieces), ranks)

\* The symbols _encode_segment looks up, in order (lines 202-207).
SegmentSymbols(seg, ranks) == SymbolsOf(PiecesFrom(seg, 1), ranks)

\* the vocabulary key '<unk>'
UNK == <<"<", "u", "n", "k", ">">>

\* line 208: self.vocab.get(tok, self.vocab.get('<unk>', 0))
VocabGet(v, sym) ==
  IF sym \in DOMAIN v THEN v[sym] ELSE IF UNK \in DOMAIN v THEN v[UNK] ELSE 0

\* _encode_segment (198-209)
EncodeSegment(seg, v, ranks) ==
  LET syms == SegmentSymbols(seg, ranks)
  IN [k \in 1..Len(syms) |-> VocabGet(v, syms[k])]

\* The ids _encode_segment emits for the symbols that have no vocabulary id.
RECURSIVE FallbackIds(_, _)
FallbackIds(syms, v) ==
  IF syms = <<>> THEN <<>>
  ELSE (IF Head(syms) \in DOMAIN v THEN <<>> ELSE <<VocabGet(v, Head(syms))>>)
       \o FallbackIds(Tail(syms), v)

\* tok occurs in t at 0-based index idx
OccursAt(t, tok, idx) ==
  /\ idx + Len(tok) <= Len(t)
  /\ \A k \in 1..Len(tok) : t[idx + k] = tok[k]

\* text.find(tok, from): 0-based, -1 when absent
Find(t, tok, from) ==
  IF \E idx \in from..Len(t) : OccursAt(t, tok, idx)
  THEN CHOOSE idx \in from..Len(t) :
         OccursAt(t, tok, idx) /\ \A h \in from..(idx - 1) : ~OccursAt(t, tok, h)
  ELSE -1

\* Mutant: a later marker of the table replaces an earlier one at the same index.
KeepsLast(idx, next_pos) == idx >= 0 /\ (next_pos = -1 \/ idx <= next_pos)

\* line 184: the test that lets a marker replace the one found so far
KeepsFirst(idx, next_pos) == idx >= 0 /\ (next_pos = -1 \/ idx < next_pos)

\* lines 180-186: the for loop over the markers in table order; pos = -1 is None.
RECURSIVE ScanSpecials(_, _, _, _, _)
ScanSpecials(table, k, t, from, best) ==
  IF k > Len(table) THEN best
  ELSE ScanSpecials(table, k + 1, t, from,
         IF KeepsFirst(Find(t, table[k].content, from), best.pos)
         THEN [pos |-> Find(t, table[k].content, from), tok |-> table[k].content,
               id |-> table[k].id]
         ELSE best)

NoSpecial == [pos |-> -1, tok |-> <<>>, id |-> -1]
FindNextSpecial(table, t, from) == ScanSpecials(table, 1, t, from, NoSpecial)

\* id_to_special, id_to_token
SpecialIds(table) == {table[k].id : k \in 1..Len(table)}
IdToToken(v, tid) ==
  IF \E sym \in DOMAIN v : v[sym] = tid
  THEN <<CHOOSE sym \in DOMAIN v : v[sym] = tid>>
  ELSE <<>>

RECURSIVE DecodeChars(_)
DecodeChars(sym) ==
  IF sym = <<>> THEN <<>> ELSE ByteDecoder(Head(sym)) \o DecodeChars(Tail(sym))

\* lines 213-222: the bytes of the ordinary ids
RECURSIVE DecodeBytes(_, _, _)
DecodeBytes(tids, table, v) ==
  IF tids = <<>> THEN <<>>
  ELSE (IF Head(tids) \in SpecialIds(table) \/ IdToToken(v, Head(tids)) = <<>>
        THEN <<>>
        ELSE DecodeChars(IdToToken(v, Head(tids))[1]))
       \o DecodeBytes(Tail(tids), table, v)

\* str.strip()
RECURSIVE Strip(_)
Strip(t) ==
  IF t = <<>> THEN t
  ELSE IF Head(t) = " " THEN Strip(Tail(t))
  ELSE IF t[Len(t)] = " " THEN Strip(SubSeq(t, 1, Len(t) - 1))
  ELSE t

\* Mutant: the loop over the ids starts at the second id.
DecodeSkipFirst(tids, table, v) ==
  Strip(DecodeBytes(IF tids = <<>> THEN tids ELSE Tail(tids), table, v))

\* decode (211-226)
Decode(tids, table, v) == Strip(DecodeBytes(tids, table, v))

\* Artifacts the runs are drawn from.
Markers == {<<"<", "a">>, <<"<">>, <<"<", "a", "a">>}
MarkerId(m) ==
  IF m = <<"<", "a">> THEN image_token_id
  ELSE IF m = <<"<">> THEN eos_id
  ELSE eos_id - 1

SpecialTables ==
  { [k \in 1..Len(t) |-> [content |-> t[k], id |-> MarkerId(t[k])]] :
      t \in {u \in SeqsUpTo(Markers, MaxSpecials) :
               \A a, b \in 1..Len(u) : a # b => u[a] # u[b]} }

Vocabs ==
  { (<<"a">> :> 0) @@ (<<"<">> :> 1) @@ (<<GSPACE>> :> 2) @@ (<<"a", "a">> :> 3)
      @@ (<<GSPACE, "a">> :> 4),
    (<<"a">> :> 0) @@ (<<GSPACE>> :> 1) @@ (UNK :> 2),
    (<<"a">> :> 0) @@ (<<GSPACE>> :> 1) }

TokRankTables ==
  { <<>>, << <<<<GSPACE>>, <<"a">>>>, <<<<"a">>, <<"a">>>> >> }

NoChoice == [from |-> -1, pos |-> -1, tok |-> <<>>, id |-> -1, emitted |-> <<>>]

InitTok ==
  /\ special_to_id \in SpecialTables
  /\ vocab \in Vocabs
  /\ bpe_ranks \in TokRankTables
  /\ text \in SeqsUpTo(TokChars, MaxText)
  /\ scan_i = 0
  /\ ids = <<>>
  /\ tpc = "scan"
  /\ round = 1
  /\ ids1 = <<>>
  /\ text1 = <<>>
  /\ text2 = <<>>
  /\ chosen = NoChoice
  /\ unmapped = <<>>
  /\ unmapped1 = <<>>
  /\ MainIdle
  /\ SmpIdle
  /\ BpeIdle

\* Mutant: the cursor is left at the start of the matched marker.
AdvanceToMatch(pos, tok) == pos

\* i = next_pos + len(next_tok) (line 195)
Advance(pos, tok) == pos + Len(tok)

\* lines 178-195: one iteration of the scan loop
TokScan ==
  /\ tpc = "scan"
  /\ scan_i < Len(text)
  /\ LET nxt == FindNextSpecial(special_to_id, text, scan_i)
         segment == IF nxt.pos = -1 THEN SubSeq(text, scan_i + 1, Len(text))
                    ELSE SubSeq(text, scan_i + 1, nxt.pos)
         emitted == EncodeSegment(segment, vocab, bpe_ranks)
                      \o (IF nxt.pos = -1 THEN <<>> ELSE <<nxt.id>>)
     IN /\ ids' = ids \o emitted
        /\ unmapped' = unmapped \o FallbackIds(SegmentSymbols(segment, bpe_ranks), vocab)
        /\ IF nxt.pos = -1
           THEN /\ tpc' = "return"
                /\ UNCHANGED <<scan_i, chosen>>
           ELSE /\ scan_i' = Advance(nxt.pos, nxt.tok)
                /\ chosen' = [from |-> scan_i, pos |-> nxt.pos, tok |-> nxt.tok,
                              id |-> nxt.id, emitted |-> emitted]
                /\ tpc' = "scan"
  /\ UNCHANGED <<special_to_id, vocab, bpe_ranks, text, round, ids1, text1, text2,
                 unmapped1>>
  /\ UNCHANGED <<mainVars, bpeVars, smpVars>>

\* line 178: the loop test fails
TokLoopEnd ==
  /\ tpc = "scan"
  /\ scan_i >= Len(text)
  /\ tpc' = "return"
  /\ UNCHANGED <<special_to_id, vocab, bpe_ranks, text, scan_i, ids, round, ids1,
                 text1, text2, chosen, unmapped, unmapped1>>
  /\ UNCHANGED <<mainVars, bpeVars, smpVars>>

\* decode(tokenize(text)), and tokenize_to_ids is entered again on its result
DecodeFirst ==
  /\ tpc = "return"
  /\ round = 1
  /\ ids1' = ids
  /\ text1' = Decode(ids, special_to_id, vocab)
  /\ text' = text1'
  /\ scan_i' = 0
  /\ ids' = <<>>
  /\ chosen' = NoChoice
  /\ unmapped1' = unmapped
  /\ unmapped' = <<>>
  /\ round' = 2
  /\ tpc' = "scan"
  /\ UNCHANGED <<special_to_id, vocab, bpe_ranks, text2>>
  /\ UNCHANGED <<mainVars, bpeVars, smpVars>>

\* decode(tokenize(decode(ids1)))
DecodeSecond ==
  /\ tpc = "return"
  /\ round = 2
  /\ text2' = Decode(ids, special_to_id, vocab)
  /\ tpc' = "finished"
  /\ UNCHANGED <<special_to_id, vocab, bpe_ranks, text, scan_i, ids, round, ids1,
                 text1, chosen, unmapped, unmapped1>>
  /\ UNCHANGED <<mainVars, bpeVars, smpVars>>

NextTok ==
  \/ TokScan
  \/ TokLoopEnd
  \/ DecodeFirst
  \/ DecodeSecond

SpecTok == InitTok /\ [][NextTok]_vars


\* ------------------------------------------------------ claims on the tokenizer
MarkerOccursAt(t, idx) ==
  \E k \in 1..Len(special_to_id) : OccursAt(t, special_to_id[k].content, idx)
NoMarkerIn(t) == \A idx \in 0..Len(t) : ~MarkerOccursAt(t, idx)

\* C7 as stated: the marker a scan iteration takes starts at the smallest index at
\* which any marker occurs from the cursor on, is the longest of the markers that
\* start there, and the iteration emits the BPE ids of the text before it followed
\* by the marker's reserved id.
C7_Original ==
  chosen.pos >= 0 =>
    /\ OccursAt(text, chosen.tok, chosen.pos)
    /\ \A idx \in chosen.from..(chosen.pos - 1) : ~MarkerOccursAt(text, idx)
    /\ \A k \in 1..Len(special_to_id) :
         OccursAt(text, special_to_id[k].content, chosen.pos)
           => Len(special_to_id[k].content) <= Len(chosen.tok)
    /\ chosen.emitted =
         EncodeSegment(SubSeq(text, chosen.from + 1, chosen.pos), vocab, bpe_ranks)
           \o <<MarkerId(chosen.tok)>>

\* C9 as stated: a symbol without a vocabulary id is emitted as the unknown-token
\* id when the vocabulary defines one, and otherwise no id is emitted for it.
C9_Original ==
  /\ UNK \in DOMAIN vocab => \A k \in 1..Len(unmapped) : unmapped[k] = vocab[UNK]
  /\ UNK \notin DOMAIN vocab => unmapped = <<>>

\* C10 as stated: decode(tokenize(decode(ids))) = decode(ids) for every ids that
\* tokenize produces; taken on the runs in which every symbol of both
\* tokenizations has a vocabulary id, so that no fallback id plays a part.
C10_Original ==
  (tpc = "finished" /\ unmapped1 = <<>> /\ unmapped = <<>>) => text2 = text1

\* The same without the restriction to mapped symbols.
C10_OriginalAnyVocab ==
  tpc = "finished" => text2 = text1

\* C10 amended: decode(tokenize(decode(ids))) = decode(ids) for every ids that
\* tokenize produces whose decoded text contains no special-token marker and is
\* re-tokenized without meeting a symbol that has no vocabulary id.
C10_RoundTrip ==
  (tpc = "finished" /\ NoMarkerIn(text1) /\ unmapped = <<>>) => text2 = text1

C10_Witness ==
  /\ tpc = "finished"
  /\ NoMarkerIn(text1)
  /\ unmapped = <<>>
  /\ text2 = text1
  /\ Len(text1) = 3
  /\ " " \in Range(text1)
  /\ \E k \in 1..Len(ids1) : ids1[k] \in SpecialIds(special_to_id)

\* Partial amendments of C10, each refuted: one condition alone does not suffice.
C10_OnlyNoMarker ==
  (tpc = "finished" /\ NoMarkerIn(text1)) => text2 = text1
C10_OnlyMapped ==
  (tpc = "finished" /\ unmapped = <<>>) => text2 = text1

\* With a vocabulary that defines the unknown token, the round trip still fails
\* on a marker-free text once a symbol has no vocabulary id.
C10_UnknownDefined ==
  (tpc = "finished" /\ NoMarkerIn(text1) /\ UNK \in DOMAIN vocab) => text2 = text1


\* ----------------------------------------------- top_p_sample, stage by stage
InitSample ==
  /\ spc = "penalty"
  /\ logits_arg \in LogitVectors
  /\ seen_arg \in SeenTables
  /\ top_p \in TopPs
  /\ temperature \in Temperatures
  /\ repetition_penalty \in Penalties
  /\ work = <<>>
  /\ probs = <<>>
  /\ order = <<>>
  /\ keep_idx = <<>>
  /\ choice = -1
  /\ bpe_ranks = <<>>
  /\ MainIdle
  /\ BpeIdle
  /\ TokIdle

\* lines 278-287: copy the logits, penalise the ids already seen.
SmpPenalty ==
  /\ spc = "penalty"
  /\ work' = Penalize(logits_arg, seen_arg, repetition_penalty)
  /\ spc' = "softmax"
  /\ UNCHANGED <<logits_arg, seen_arg, top_p, temperature, repetition_penalty, probs,
                 order, keep_idx, choice>>
  /\ UNCHANGED <<mainVars, bpe_ranks, bpeVars, tokVars>>

\* lines 289-294: temperature and softmax.
SmpSoftmax ==
  /\ spc = "softmax"
  /\ work' = Scale(work, temperature)
  /\ probs' = Softmax(work')
  /\ spc' = "truncate"
  /\ UNCHANGED <<logits_arg, seen_arg, top_p, temperature, repetition_penalty,
                 order, keep_idx, choice>>
  /\ UNCHANGED <<mainVars, bpe_ranks, bpeVars, tokVars>>

\* lines 296-301: sort by descending probability and keep the nucleus.
SmpTruncate ==
  /\ spc = "truncate"
  /\ \E o \in ArgSortDesc(probs) :
       /\ order' = o
       /\ keep_idx' = KeepIdx(o, probs, top_p)
  /\ spc' = "choose"
  /\ UNCHANGED <<logits_arg, seen_arg, top_p, temperature, repetition_penalty, work,
                 probs, choice>>
  /\ UNCHANGED <<mainVars, bpe_ranks, bpeVars, tokVars>>

\* lines 302-303: draw from the renormalised nucleus and return.
SmpChoose ==
  /\ spc = "choose"
  /\ \E c \in RandomChoice(keep_idx, KeepProbs(keep_idx, probs)) : choice' = c
  /\ spc' = "return"
  /\ UNCHANGED <<logits_arg, seen_arg, top_p, temperature, repetition_penalty, work,
                 probs, order, keep_idx>>
  /\ UNCHANGED <<mainVars, bpe_ranks, bpeVars, tokVars>>

NextSample ==
  \/ SmpPenalty
  \/ SmpSoftmax
  \/ SmpTruncate
  \/ SmpChoose

SpecSample == InitSample /\ [][NextSample]_vars

\* ------------------------------------------------------ claims on top_p_sample
Truncated == spc \in {"choose", "return"}

\* Cumulative mass of the first k ids of the order, and the whole mass, in the
\* unit of the probabilities' common denominator.
Mass(k) == SumOver([j \in 1..k |-> probs[order[j]].num], 1..k)
WholeMass == probs[order[1]].den
ReachesTopP(k) == Mass(k) * top_p.den >= top_p.num * WholeMass

\* The kept set is a prefix of the descending order, the smallest one whose mass
\* reaches top_p, never empty; the returned id is one of the kept ids.
NucleusIsSmallestPrefix ==
  /\ Range(order) = VocabIds
  /\ Len(order) = Cardinality(VocabIds)
  /\ \A j \in 1..(Len(order) - 1) : ~FracLess(probs[order[j]], probs[order[j + 1]])
  /\ Len(keep_idx) \in 1..Len(order)
  /\ keep_idx = SubSeq(order, 1, Len(keep_idx))
  /\ ReachesTopP(Len(keep_idx))
  /\ \A k \in 1..(Len(keep_idx) - 1) : ~ReachesTopP(k)
  /\ spc = "return" => choice \in Range(keep_idx)

\* top_p at or below 1/vocab: only one id of the highest probability is kept.
NearZeroKeepsTop ==
  ~FracLess(Frac(1, Cardinality(VocabIds)), top_p) =>
    /\ Len(keep_idx) = 1
    /\ \A id \in VocabIds : ~FracLess(probs[keep_idx[1]], probs[id])

\* C11 as stated: the nucleus is the smallest prefix of the descending order
\* whose mass reaches top_p, never empty, the returned id is in it, top_p near 0
\* keeps the single most probable id, and top_p = 1.0 keeps every id.
C11_Original ==
  Truncated =>
    /\ NucleusIsSmallestPrefix
    /\ NearZeroKeepsTop
    /\ top_p = Frac(1, 1) => Range(keep_idx) = VocabIds

\* C11: the nucleus is the smallest prefix of the descending order whose mass
\* reaches top_p, never empty, the returned id is in it, and top_p near 0 keeps
\* the single most probable id at every temperature; with top_p = 1.0 the nucleus
\* holds the whole mass, and it is every id when no shorter prefix of the order
\* already holds the whole mass.
C11_Nucleus ==
  Truncated =>
    /\ NucleusIsSmallestPrefix
    /\ NearZeroKeepsTop
    /\ top_p = Frac(1, 1) =>
         /\ Mass(Len(keep_idx)) = WholeMass
         /\ (\A k \in 1..(Len(order) - 1) : Mass(k) < WholeMass) => Range(keep_idx) = VocabIds

\* top_p = 1.0 with an underflowed probability: the nucleus leaves that id out.
C11_Witness ==
  /\ spc = "return"
  /\ top_p = Frac(1, 1)
  /\ Len(keep_idx) = 2
  /\ temperature = Frac(0, 1)


\* ------------------------------------------------- claims on the decode loop
\* The stop condition of a STEP: the last sampled id is the end-of-sequence id, or
\* max_new_tokens ids have been sampled.
StopMet ==
  /\ Len(generated) >= 1
  /\ \/ generated[Len(generated)] = eos_id
     \/ Len(generated) >= max_new_tokens

\* C12 as stated, for max_new_tokens >= 1: once the sampled id is the
\* end-of-sequence id or max_new_tokens ids have been sampled the loop is in DONE,
\* without a further embedding lookup or decoder call, so a finished generation has
\* made no more decoder calls (prefill included) than it sampled ids.
C12_Original ==
  (AfterPrefill /\ max_new_tokens >= 1) =>
    /\ StopMet => LoopStopped
    /\ LoopStopped => dec_calls <= Len(generated)
    /\ LoopStopped => embed_calls <= Len(generated) - 1

Occurrences(gen, id) == Cardinality({k \in 1..Len(gen) : gen[k] = id})

\* C13: a generation starts with an empty mapping and an empty generated
\* sequence; after every sample the count of every id is the number of its
\* occurrences in the generated sequence (the end-of-sequence id included), the
\* counts sum to the number of sampled ids, no count ever decreases, and the
\* sampler leaves the mapping and the logits it was passed as they were.
C13_SamplingState ==
  /\ []((pc = "STEP" /\ step = 0) => (seen = <<>> /\ generated = <<>>))
  /\ [](/\ DOMAIN seen = Range(generated)
        /\ \A id \in VocabIds : Count(seen, id) = Occurrences(generated, id)
        /\ SumOver(seen, DOMAIN seen) = Len(generated)
        /\ passed_intact)
  /\ [][\A id \in VocabIds : Count(seen', id) >= Count(seen, id)]_vars

C13_Witness ==
  /\ pc = "DONE"
  /\ generated = <<0, 0>>
  /\ Count(seen, 0) = 2
  /\ passed_intact

\* --------------------------------------------- claims on the scan loop's cursor
NonEmptyMarkers == \A k \in 1..Len(special_to_id) : special_to_id[k].content # <<>>

\* What is left for the scan loop to do: the text behind the cursor, and the
\* loop exit itself.
ScanMeasure == (Len(text) - scan_i) + (IF tpc = "scan" THEN 1 ELSE 0)

\* C14: with every marker non-empty tokenize_to_ids terminates: an iteration of
\* the scan loop either takes the rest of the text and leaves the loop with the
\* cursor where it was, or moves the cursor strictly forward to the end of a
\* marker matched at or after it; the cursor stays within the text, and every
\* step of the loop strictly decreases the non-negative measure of what is left.
C14_Terminates ==
  /\ [][(NonEmptyMarkers /\ tpc = "scan" /\ scan_i < Len(text)) =>
          \/ tpc' = "return" /\ scan_i' = scan_i
          \/ /\ tpc' = "scan"
             /\ scan_i' > scan_i
             /\ chosen'.pos >= scan_i
             /\ OccursAt(text, chosen'.tok, chosen'.pos)
             /\ scan_i' = chosen'.pos + Len(chosen'.tok)]_vars
  /\ [][(NonEmptyMarkers /\ tpc = "scan") => ScanMeasure' < ScanMeasure]_vars
  /\ [](0 <= scan_i /\ scan_i <= Len(text) /\ ScanMeasure >= 0)

\* Two markers were passed in one scan.
C14_Witness ==
  /\ tpc = "return"
  /\ round = 1
  /\ NonEmptyMarkers
  /\ chosen # NoChoice
  /\ chosen.from > 0
  /\ scan_i = Len(text)

=============================================================================
